---- MODULE Spec2Model ----
(***************************************************************************)
(* Model of JanusAudioBridgePlugin (src/janus_client/plugin_audiobridge.py) *)
(* together with the parts of the client it rides on: the transaction      *)
(* registry / mailbox (message_transaction, plugin_base.send), the         *)
(* structural matcher is_subset and the media engine (RTCPeerConnection).  *)
(*                                                                         *)
(* One client task runs the plugin's operations one after the other, as    *)
(* main() of src/test_audiobridge.py does; the gateway, the dispatcher of  *)
(* inbound messages and the connection-state handler of the media engine   *)
(* run concurrently with it, interleaved at the await points of the code.  *)
(***************************************************************************)
EXTENDS Naturals, Sequences, FiniteSets, TLC

\* ------------------------------------------------------------- bounds
\* Number of requests the client task sends (transaction ids 1..MaxTx).
MaxTx == 2
\* Messages buffered in one transaction mailbox.
MaxMailbox == 2
\* "Media flowing" signals forwarded to the media-received callback.
MaxSignals == 2

PluginName == "janus.plugin.audiobridge"

\* class State
STREAMING_OUT_MEDIA == "streaming_out_media"
STREAMING_IN_MEDIA == "streaming_in_media"
IDLE == "idle"

\* Room ids the client asks for (ROOM_ID of the test, and another one).
Rooms == {"1234", "5678"}

\* ------------------------------------------------------------ messages
\* A message is a nested dict; the model flattens the paths the code reads:
\*   janus, plugindata.plugin, plugindata.data.{audiobridge, videoroom, room,
\*   exists, result, error_code, error}, error (top level), jsep, receiving.
\* Absent marks a key the dict does not hold.
Absent == "absent"
\* In a pattern: Free is a key the pattern does not name, Present is the value
\* None / {} of a pattern key ("the key must be present").
Free == "free"
Present == "present"

Fields == {"janus", "plugin", "audiobridge", "videoroom", "room", "exists",
           "result", "error_code", "perror", "error", "jsep", "receiving"}

Blank == [f \in Fields |-> Absent]
NoPattern == [f \in Fields |-> Free]

\* is_subset(dict_1, dict_2): every key of the pattern dict_2 is in dict_1,
\* and holds an equal value unless the pattern value is None / {}.
is_subset(message, pattern) ==
    \A f \in Fields :
        \/ pattern[f] = Free
        \/ /\ message[f] # Absent
           /\ (pattern[f] = Present \/ message[f] = pattern[f])

\* {"janus": "error", "error": {}}
ErrorPattern == [NoPattern EXCEPT !.janus = "error", !.error = Present]

\* The two generic plugin-error patterns of function_matcher.
PluginErrorPattern(janus) ==
    [NoPattern EXCEPT !.janus = janus, !.plugin = PluginName,
                      !.videoroom = "event", !.error_code = Present, !.perror = Present]

\* success_matcher of exists, join, leave and configure.
SuccessMatcher(op, room) ==
    CASE op = "exists" ->
           [NoPattern EXCEPT !.janus = "success", !.plugin = PluginName,
                             !.audiobridge = "success", !.room = room,
                             !.exists = Present]
      [] op = "join" ->
           [NoPattern EXCEPT !.janus = "event", !.plugin = PluginName,
                             !.audiobridge = "joined", !.room = room]
      [] op = "leave" ->
           [NoPattern EXCEPT !.janus = "event", !.plugin = PluginName,
                             !.audiobridge = "left", !.room = room]
      [] OTHER ->
           [NoPattern EXCEPT !.janus = "event", !.plugin = PluginName,
                             !.audiobridge = "event", !.result = "ok"]

\* function_matcher of __send_wrapper.
function_matcher(message, matcher) ==
    \/ is_subset(message, matcher)
    \/ is_subset(message, PluginErrorPattern("success"))
    \/ is_subset(message, PluginErrorPattern("event"))
    \/ is_subset(message, ErrorPattern)

\* What the gateway sends.
Ack == [Blank EXCEPT !.janus = "ack"]
JanusError == [Blank EXCEPT !.janus = "error", !.error = "payload"]
PluginError ==
    [Blank EXCEPT !.janus = "event", !.plugin = PluginName,
                  !.audiobridge = "event", !.error_code = "485",
                  !.perror = "No such room"]
ExistsReply(room, e) ==
    [Blank EXCEPT !.janus = "success", !.plugin = PluginName,
                  !.audiobridge = "success", !.room = room, !.exists = e]
Joined(room) ==
    [Blank EXCEPT !.janus = "event", !.plugin = PluginName,
                  !.audiobridge = "joined", !.room = room]
Left(room) ==
    [Blank EXCEPT !.janus = "event", !.plugin = PluginName,
                  !.audiobridge = "left", !.room = room]
\* jsep: Absent, "answer" (sdp and type present) or "no_sdp" (a jsep dict
\* without sdp).
ConfigureOk(jsep) ==
    [Blank EXCEPT !.janus = "event", !.plugin = PluginName,
                  !.audiobridge = "event", !.result = "ok", !.jsep = jsep]

\* Replies the gateway may correlate with a request of kind op while the
\* client waits for them.
Replies(op) ==
    {JanusError, PluginError} \cup
    CASE op = "exists" -> {ExistsReply("1234", e) : e \in {"true", "false"}}
      [] op = "join" -> {Joined(r) : r \in Rooms}
      [] op = "leave" -> {Left(r) : r \in Rooms}
      [] OTHER -> {ConfigureOk(j) : j \in {Absent, "answer", "no_sdp"}}

\* Session-level events the gateway sends without a transaction.
WebrtcUp == [Blank EXCEPT !.janus = "webrtcup"]
Media(receiving) == [Blank EXCEPT !.janus = "media", !.receiving = receiving]
Events == {WebrtcUp, Media("true"), Media("false"), PluginError,
           ConfigureOk("answer")}

\* Replies that arrive for a transaction nobody waits on any more.
LateReplies == {Ack, JanusError}

\* --------------------------------------------------------------- state
VARIABLES
    state,      \* self.__state
    webrtcup,   \* self.__webrtcup_event (set / clear)
    pcConn,     \* self._pc.connectionState
    pcSig,      \* self._pc.signalingState
    pcTracks,   \* number of tracks added to self._pc
    pcRemote,   \* a remote description has been applied to self._pc
    listeners,  \* connectionstatechange listeners registered on self._pc
    handlers,   \* runs of __on_state_changed for "closed", by position
    txs,        \* registered transactions
    mailbox,    \* mailbox of each transaction
    nextTx,     \* next transaction id
    call,       \* the operation the client task is in, and its position
    last,       \* the operation that ended in the last step, and how
    rx,         \* the inbound message on_receive handled in the last step
    mediaCb,    \* invocations of on_media_receive_callback
    mediaIn,    \* "media flowing" signals handled in STREAMING_IN_MEDIA
    trackCb,    \* invocations of on_track_created_callback
    coalesced,  \* a webrtcup message found the event already set
    endedCb,    \* invocations of on_stream_ended_callback
    toIdle,     \* writes of IDLE over a streaming state
    hlog,       \* what the runs of the closed handler have done, in order
    ackedOk     \* a configure request has been answered with result ok

vars == <<state, webrtcup, pcConn, pcSig, pcTracks, pcRemote, listeners,
          handlers, txs, mailbox, nextTx, call, last, rx,
          mediaCb, mediaIn, trackCb, coalesced, endedCb, toIdle, hlog,
          ackedOk>>

pcVars == <<pcConn, pcSig, pcTracks, pcRemote, listeners, handlers>>
txVars == <<txs, mailbox, nextTx>>
sigVars == <<mediaCb, mediaIn, webrtcup, trackCb, coalesced>>
endVars == <<endedCb, toIdle, hlog>>

TxIds == 1..(MaxTx + 1)

NoCall == [op |-> "none", step |-> "idle", room |-> "-", tx |-> 0,
           resp |-> Blank, before |-> IDLE]

NoLast == [op |-> "none", outcome |-> "-", sub |-> "-", tx |-> 0,
           resp |-> Blank, room |-> "-", before |-> IDLE]

NoRx == [msg |-> Blank, before |-> IDLE, outcome |-> "-", calls |-> 0]

\* A step in which no operation ends / no inbound message is handled.
NoReturn == last' = NoLast
NoReceive == rx' = NoRx

\* __init__ (and the RTCPeerConnection the base class creates).
Init ==
    /\ state = IDLE
    /\ webrtcup = FALSE
    /\ pcConn = "new"
    /\ pcSig = "stable"
    /\ pcTracks = 0
    /\ pcRemote = FALSE
    /\ listeners = 0
    /\ handlers = [close |-> 0, callback |-> 0, set |-> 0]
    /\ txs = {}
    /\ mailbox = [t \in TxIds |-> << >>]
    /\ nextTx = 1
    /\ call = NoCall
    /\ last = NoLast
    /\ rx = NoRx
    /\ mediaCb = 0
    /\ mediaIn = 0
    /\ trackCb = 0
    /\ coalesced = FALSE
    /\ endedCb = 0
    /\ toIdle = 0
    /\ hlog = << >>
    /\ ackedOk = FALSE

\* -------------------------------------------------------- media engine
\* Variant of RegisterListener: every registration adds a listener.
RegisterListenerAgain(n) == n + 1

\* self._pc.on("connectionstatechange")(self.__on_state_changed): the
\* emitter keeps its listeners keyed by the callable, and two bound methods
\* of the same object are equal, so registering again leaves one listener.
RegisterListener(n) == IF n = 0 THEN n + 1 ELSE n

\* Variant of PcClose: closing a closed connection runs the closed handler
\* once more.
PcCloseAgain ==
    IF pcSig = "closed"
    THEN /\ handlers' = [handlers EXCEPT !.close = @ + 1]
         /\ UNCHANGED <<pcConn, pcSig, pcTracks, pcRemote, listeners>>
    ELSE /\ pcConn' = "closed"
         /\ pcSig' = "closed"
         /\ handlers' = [handlers EXCEPT !.close = @ + listeners]
         /\ listeners' = 0
         /\ UNCHANGED <<pcTracks, pcRemote>>

\* self._pc.close(): a no-op on a closed connection; otherwise the
\* connection becomes closed, every connectionstatechange listener is
\* started as a task of its own and the listeners are removed.
PcClose ==
    IF pcSig = "closed"
    THEN UNCHANGED pcVars
    ELSE /\ pcConn' = "closed"
         /\ pcSig' = "closed"
         /\ handlers' = [handlers EXCEPT !.close = @ + listeners]
         /\ listeners' = 0
         /\ UNCHANGED <<pcTracks, pcRemote>>

\* __on_state_changed for a connection state other than "closed": the
\* media engine moves on (new -> connecting -> connected, or failed) and
\* the handler only logs.
OnStateChangedOther(s) ==
    /\ pcSig # "closed"
    /\ listeners > 0
    /\ \/ s = "connecting" /\ pcConn = "new" /\ pcSig = "have-local-offer"
       \/ s = "connected" /\ pcConn = "connecting" /\ pcRemote
       \/ s = "failed" /\ pcConn \in {"connecting", "connected"}
    /\ pcConn' = s
    /\ NoReturn /\ NoReceive
    /\ UNCHANGED <<state, pcSig, pcTracks, pcRemote, listeners, handlers,
                   call, ackedOk>>
    /\ UNCHANGED <<txVars, sigVars, endVars>>

\* __on_state_changed with connectionState == "closed", first part:
\* __on_stream_ended closes the connection ("Ok to close PC multiple times").
OnStateChangedClose ==
    /\ handlers.close > 0
    /\ handlers' = [handlers EXCEPT !.close = @ - 1, !.callback = @ + 1]
    /\ hlog' = Append(hlog, "close")
    /\ NoReturn /\ NoReceive
    /\ UNCHANGED <<state, pcConn, pcSig, pcTracks, pcRemote, listeners,
                   call, ackedOk, endedCb, toIdle>>
    /\ UNCHANGED <<txVars, sigVars>>

\* __on_stream_ended, second part: the stream-ended callback (the test
\* configures all three callbacks).
OnStreamEndedCallback ==
    /\ handlers.callback > 0
    /\ handlers' = [handlers EXCEPT !.callback = @ - 1, !.set = @ + 1]
    /\ endedCb' = endedCb + 1
    /\ hlog' = Append(hlog, "callback")
    /\ NoReturn /\ NoReceive
    /\ UNCHANGED <<state, pcConn, pcSig, pcTracks, pcRemote, listeners,
                   call, ackedOk, toIdle>>
    /\ UNCHANGED <<txVars, sigVars>>

\* Variant of OnStateChangedSetIdle: the handler ends without the reset.
OnStateChangedNoReset ==
    /\ handlers.set > 0
    /\ handlers' = [handlers EXCEPT !.set = @ - 1]
    /\ hlog' = Append(hlog, "idle")
    /\ NoReturn /\ NoReceive
    /\ UNCHANGED <<state, toIdle, pcConn, pcSig, pcTracks, pcRemote, listeners,
                   call, ackedOk, endedCb>>
    /\ UNCHANGED <<txVars, sigVars>>

\* __on_state_changed, last line: self.__state = self.State.IDLE.
OnStateChangedSetIdle ==
    /\ handlers.set > 0
    /\ handlers' = [handlers EXCEPT !.set = @ - 1]
    /\ state' = IDLE
    /\ toIdle' = IF state # IDLE THEN toIdle + 1 ELSE toIdle
    /\ hlog' = Append(hlog, "idle")
    /\ NoReturn /\ NoReceive
    /\ UNCHANGED <<pcConn, pcSig, pcTracks, pcRemote, listeners,
                   call, ackedOk, endedCb>>
    /\ UNCHANGED <<txVars, sigVars>>

\* close_stream, called by the client task between two operations; what
\* ended is recorded with the signaling state the connection had before.
close_stream ==
    /\ call.step = "idle"
    /\ PcClose
    /\ last' = [NoLast EXCEPT !.op = "close_stream", !.outcome = "None",
                              !.sub = pcSig, !.before = state]
    /\ NoReceive
    /\ UNCHANGED <<state, call, ackedOk>>
    /\ UNCHANGED <<txVars, sigVars, endVars>>

\* ------------------------------------------------------ inbound messages
\* Variant of on_receive_result: "media flowing" is checked against
\* STREAMING_IN_MEDIA only, the elif for IDLE is missing.
on_receive_result_no_idle(msg, st) ==
    IF msg.jsep # Absent
    THEN [outcome |-> "AttributeError", calls |-> 0, up |-> FALSE]
    ELSE IF msg.janus = "webrtcup"
    THEN [outcome |-> "ok", calls |-> 0, up |-> TRUE]
    ELSE IF msg.janus = "media" /\ msg.receiving = "true"
    THEN [outcome |-> "ok",
          calls |-> IF st = STREAMING_IN_MEDIA THEN 1 ELSE 0, up |-> FALSE]
    ELSE IF msg.janus = "event" /\ msg.plugin = Absent
    THEN [outcome |-> "KeyError", calls |-> 0, up |-> FALSE]
    ELSE [outcome |-> "ok", calls |-> 0, up |-> FALSE]

\* Variant of on_receive_result: the callback is invoked for the first
\* "media flowing" signal only.
on_receive_result_once(msg, st) ==
    IF msg.jsep # Absent
    THEN [outcome |-> "AttributeError", calls |-> 0, up |-> FALSE]
    ELSE IF msg.janus = "webrtcup"
    THEN [outcome |-> "ok", calls |-> 0, up |-> TRUE]
    ELSE IF msg.janus = "media" /\ msg.receiving = "true"
    THEN IF st = STREAMING_IN_MEDIA
         THEN [outcome |-> "ok", calls |-> IF mediaCb = 0 THEN 1 ELSE 0,
               up |-> FALSE]
         ELSE IF st = IDLE
         THEN [outcome |-> "InvalidStateTransition", calls |-> 0, up |-> FALSE]
         ELSE [outcome |-> "ok", calls |-> 0, up |-> FALSE]
    ELSE IF msg.janus = "event" /\ msg.plugin = Absent
    THEN [outcome |-> "KeyError", calls |-> 0, up |-> FALSE]
    ELSE [outcome |-> "ok", calls |-> 0, up |-> FALSE]

\* Variant of on_receive_result: "media flowing" outside STREAMING_IN_MEDIA
\* raises, and so does a media signal that says nothing is received.
on_receive_result_strict(msg, st) ==
    IF msg.jsep # Absent
    THEN [outcome |-> "AttributeError", calls |-> 0, up |-> FALSE]
    ELSE IF msg.janus = "webrtcup"
    THEN [outcome |-> "ok", calls |-> 0, up |-> TRUE]
    ELSE IF msg.janus = "media"
    THEN IF msg.receiving = "true" /\ st = STREAMING_IN_MEDIA
         THEN [outcome |-> "ok", calls |-> 1, up |-> FALSE]
         ELSE [outcome |-> "InvalidStateTransition", calls |-> 0, up |-> FALSE]
    ELSE IF msg.janus = "event" /\ msg.plugin = Absent
    THEN [outcome |-> "KeyError", calls |-> 0, up |-> FALSE]
    ELSE [outcome |-> "ok", calls |-> 0, up |-> FALSE]

\* What on_receive does with a message in state st: how it ends, how often
\* it invokes the media-received callback, whether it sets the webrtcup
\* event.
on_receive_result(msg, st) ==
    IF msg.jsep # Absent
    THEN \* response["jsep"].type: the jsep of a message is a dict
         [outcome |-> "AttributeError", calls |-> 0, up |-> FALSE]
    ELSE IF msg.janus = "webrtcup"
    THEN [outcome |-> "ok", calls |-> 0, up |-> TRUE]
    ELSE IF msg.janus = "media" /\ msg.receiving = "true"
    THEN IF st = STREAMING_IN_MEDIA
         THEN [outcome |-> "ok", calls |-> 1, up |-> FALSE]
         ELSE IF st = IDLE
         THEN [outcome |-> "InvalidStateTransition", calls |-> 0, up |-> FALSE]
         ELSE [outcome |-> "ok", calls |-> 0, up |-> FALSE]
    ELSE IF msg.janus = "event" /\ msg.plugin = Absent
    THEN [outcome |-> "KeyError", calls |-> 0, up |-> FALSE]
    ELSE [outcome |-> "ok", calls |-> 0, up |-> FALSE]

\* Variant of on_receive: a webrtcup message also moves the session to
\* STREAMING_IN_MEDIA.
on_receive_writes_state(msg) ==
    /\ LET r == on_receive_result(msg, state) IN
        /\ mediaCb + r.calls <= MaxSignals
        /\ rx' = [msg |-> msg, before |-> state, outcome |-> r.outcome,
                  calls |-> r.calls]
        /\ mediaCb' = mediaCb + r.calls
        /\ webrtcup' = (webrtcup \/ r.up)
        /\ coalesced' = (coalesced \/ (r.up /\ webrtcup))
        /\ state' = IF r.up THEN STREAMING_IN_MEDIA ELSE state
    /\ mediaIn' = IF /\ msg = Media("true")
                     /\ state = STREAMING_IN_MEDIA
                  THEN mediaIn + 1 ELSE mediaIn
    /\ NoReturn
    /\ UNCHANGED <<call, ackedOk, trackCb>>
    /\ UNCHANGED <<pcVars, txVars, endVars>>

\* on_receive(response); __on_media_receive is the callback invocation.
on_receive(msg) ==
    /\ LET r == on_receive_result(msg, state) IN
        /\ mediaCb + r.calls <= MaxSignals
        /\ rx' = [msg |-> msg, before |-> state, outcome |-> r.outcome,
                  calls |-> r.calls]
        /\ mediaCb' = mediaCb + r.calls
        /\ webrtcup' = (webrtcup \/ r.up)
        /\ coalesced' = (coalesced \/ (r.up /\ webrtcup))
    /\ mediaIn' = IF /\ msg = Media("true")
                     /\ state = STREAMING_IN_MEDIA
                  THEN mediaIn + 1 ELSE mediaIn
    /\ NoReturn
    /\ UNCHANGED <<state, call, ackedOk, trackCb>>
    /\ UNCHANGED <<pcVars, txVars, endVars>>

\* The dispatcher, for a message without a transaction id.
Broadcast(msg) == on_receive(msg)

\* The client task waits on transaction tx.
Awaited(tx) == call.step = "await" /\ call.tx = tx

\* The dispatcher, for a reply carrying transaction id tx: into the mailbox
\* of a registered transaction, else to the fallback subscriber. (A reply
\* for a registered transaction nobody waits on is buffered and never read:
\* the gateway of the model does not send it.)
Deliver(tx, msg) ==
    /\ tx < nextTx
    /\ IF Awaited(tx) THEN msg \in Replies(call.op)
       ELSE tx \notin txs /\ msg \in LateReplies
    /\ IF tx \in txs
       THEN /\ Len(mailbox[tx]) < MaxMailbox
            /\ mailbox' = [mailbox EXCEPT ![tx] = Append(@, msg)]
            /\ NoReturn /\ NoReceive
            /\ UNCHANGED <<state, call, ackedOk, txs, nextTx>>
            /\ UNCHANGED <<pcVars, sigVars, endVars>>
       ELSE on_receive(msg)

\* ------------------------------------------------------- the client task
\* The operation ends: what its caller gets (a value, or the exception).
\* sub is what configure itself gave back to publish_stream.
Finish(outcome, sub) ==
    /\ last' = [op |-> call.op, outcome |-> outcome, sub |-> sub,
                tx |-> call.tx, resp |-> call.resp, room |-> call.room,
                before |-> call.before]
    /\ call' = NoCall

\* Variant of Start: the operation begins by resetting the session state.
StartFromIdle(op, room) ==
    /\ call.step = "idle"
    /\ nextTx <= MaxTx
    /\ call' = [NoCall EXCEPT !.op = op, !.step = "send", !.room = room,
                              !.before = state]
    /\ state' = IDLE
    /\ NoReturn /\ NoReceive
    /\ UNCHANGED ackedOk
    /\ UNCHANGED <<pcVars, txVars, sigVars, endVars>>

\* exists(room), join(room), leave(room) up to the send of __send_wrapper.
Start(op, room) ==
    /\ call.step = "idle"
    /\ nextTx <= MaxTx
    /\ call' = [NoCall EXCEPT !.op = op, !.step = "send", !.room = room,
                              !.before = state]
    /\ NoReturn /\ NoReceive
    /\ UNCHANGED <<state, ackedOk>>
    /\ UNCHANGED <<pcVars, txVars, sigVars, endVars>>

\* publish_stream(track) -> configure_pc_and_create_offer, up to and with
\* setLocalDescription(createOffer()). addTrack raises on a closed
\* connection.
PublishStart(track) ==
    /\ call.step = "idle"
    /\ nextTx <= MaxTx
    /\ IF ~track \/ pcSig = "closed"
       THEN /\ last' = [NoLast EXCEPT !.op = "publish",
                                      !.outcome = "Exception",
                                      !.before = state]
            /\ UNCHANGED <<call, pcVars>>
       ELSE /\ pcTracks' = pcTracks + 1
            /\ pcSig' = "have-local-offer"
            /\ call' = [NoCall EXCEPT !.op = "publish", !.step = "offer",
                                      !.before = state]
            /\ NoReturn
            /\ UNCHANGED <<pcConn, pcRemote, listeners, handlers>>
    /\ NoReceive
    /\ UNCHANGED <<state, ackedOk>>
    /\ UNCHANGED <<txVars, sigVars, endVars>>

\* configure_pc_and_create_offer after the offer: the state is set and the
\* handlers are registered; then configure(pc) up to the send.
PublishSetState ==
    /\ call.step = "offer"
    /\ state' = STREAMING_OUT_MEDIA
    /\ listeners' = RegisterListener(listeners)
    /\ call' = [call EXCEPT !.step = "send"]
    /\ NoReturn /\ NoReceive
    /\ UNCHANGED <<ackedOk, pcConn, pcSig, pcTracks, pcRemote, handlers>>
    /\ UNCHANGED <<txVars, sigVars, endVars>>

\* self.send(message): a transaction is registered and the request sent.
Send ==
    /\ call.step = "send"
    /\ txs' = txs \cup {nextTx}
    /\ nextTx' = nextTx + 1
    /\ call' = [call EXCEPT !.step = "await", !.tx = nextTx]
    /\ NoReturn /\ NoReceive
    /\ UNCHANGED <<state, ackedOk, mailbox>>
    /\ UNCHANGED <<pcVars, sigVars, endVars>>

Matcher == SuccessMatcher(call.op, call.room)

\* Positions in the mailbox of the messages function_matcher accepts.
Matching(box, matcher) ==
    {i \in 1..Len(box) : function_matcher(box[i], matcher)}

\* Variant of FirstMatch: the latest accepted message.
LastMatch(box, matcher) ==
    CHOOSE i \in Matching(box, matcher) :
        \A j \in Matching(box, matcher) : i >= j

FirstMatch(box, matcher) ==
    CHOOSE i \in Matching(box, matcher) :
        \A j \in Matching(box, matcher) : i <= j

Without(box, i) ==
    [k \in 1..(Len(box) - 1) |-> IF k < i THEN box[k] ELSE box[k + 1]]

\* message_transaction.get(matcher, timeout=15) times out: the deadline
\* passes with no message in the mailbox that the matcher accepts (time is
\* not counted: the deadline may pass at any moment of the wait). The
\* exception leaves __send_wrapper at the get, before
\* message_transaction.done(): the transaction stays registered. Nothing
\* refers to its mailbox any more, and the model empties it.
GetTimeout ==
    /\ call.step = "await"
    /\ Matching(mailbox[call.tx], Matcher) = {}
    /\ Finish("TransactionTimeout",
              IF call.op = "publish" THEN "TransactionTimeout" ELSE "-")
    /\ mailbox' = [mailbox EXCEPT ![call.tx] = << >>]
    /\ NoReceive
    /\ UNCHANGED <<state, ackedOk, txs, nextTx>>
    /\ UNCHANGED <<pcVars, sigVars, endVars>>

\* message_transaction.get returns the first message the matcher accepts.
GetReturn ==
    /\ call.step = "await"
    /\ Matching(mailbox[call.tx], Matcher) # {}
    /\ LET i == FirstMatch(mailbox[call.tx], Matcher) IN
        /\ call' = [call EXCEPT !.step = "done", !.resp = mailbox[call.tx][i]]
        /\ mailbox' = [mailbox EXCEPT ![call.tx] = Without(@, i)]
    /\ NoReturn /\ NoReceive
    /\ UNCHANGED <<state, ackedOk, txs, nextTx>>
    /\ UNCHANGED <<pcVars, sigVars, endVars>>

\* Variant of Release: done() empties the registry.
ReleaseAll(registered, tx) == {}

\* The registry after message_transaction.done() of transaction tx.
Release(registered, tx) == registered \ {tx}

\* Variant of Done: __send_wrapper goes on without done().
DoneSkipped ==
    /\ call.step = "done"
    /\ call' = [call EXCEPT !.step = "check"]
    /\ NoReturn /\ NoReceive
    /\ UNCHANGED <<state, ackedOk>>
    /\ UNCHANGED <<pcVars, txVars, sigVars, endVars>>

\* await message_transaction.done()
Done ==
    /\ call.step = "done"
    /\ txs' = Release(txs, call.tx)
    /\ mailbox' = [mailbox EXCEPT ![call.tx] = << >>]
    /\ call' = [call EXCEPT !.step = "check"]
    /\ NoReturn /\ NoReceive
    /\ UNCHANGED <<state, ackedOk, nextTx>>
    /\ UNCHANGED <<pcVars, sigVars, endVars>>

\* if jsep and "sdp" in jsep and "type" in jsep
ValidJsep(resp) == resp.jsep = "answer"

\* Variant of AfterReply: configure sets the state without applying the
\* answer.
AfterReplySkipAnswer(op, resp, matcher) ==
    CASE op = "leave" -> "close"
      [] op = "publish" /\ is_subset(resp, matcher) /\ ValidJsep(resp) -> "setin"
      [] OTHER -> "return"

\* Where an operation goes once __send_wrapper has returned resp.
AfterReply(op, resp, matcher) ==
    CASE op = "leave" -> "close"
      [] op = "publish" /\ is_subset(resp, matcher) /\ ValidJsep(resp) -> "apply"
      [] OTHER -> "return"

Bool(b) == IF b THEN "True" ELSE "False"

\* Variant of ReturnValue: exists returns whether the reply is a success
\* reply, as join does.
ReturnValueNoField(op, resp, matcher) ==
    CASE op \in {"exists", "join"} -> Bool(is_subset(resp, matcher))
      [] OTHER -> "False"

\* What exists, join and configure return when nothing is left to do.
ReturnValue(op, resp, matcher) ==
    CASE op = "exists" -> Bool(is_subset(resp, matcher) /\ resp.exists = "true")
      [] op = "join" -> Bool(is_subset(resp, matcher))
      [] OTHER -> "False"

\* __send_wrapper after done(): raise on a top-level error, else return the
\* response to the operation, which runs up to its next await or its end.
Check ==
    /\ call.step = "check"
    /\ IF is_subset(call.resp, ErrorPattern)
       THEN /\ Finish("RemoteError",
                      IF call.op = "publish" THEN "RemoteError" ELSE "-")
            /\ UNCHANGED ackedOk
       ELSE /\ ackedOk' = (ackedOk \/ (call.op = "publish" /\ is_subset(call.resp, Matcher)))
            /\ IF AfterReply(call.op, call.resp, Matcher) = "return"
               THEN IF call.op = "publish"
                    THEN Finish("None", "False")
                    ELSE Finish(ReturnValue(call.op, call.resp, Matcher), "-")
               ELSE /\ call' = [call EXCEPT
                                  !.step = AfterReply(call.op, call.resp, Matcher)]
                    /\ NoReturn
    /\ NoReceive
    /\ UNCHANGED state
    /\ UNCHANGED <<pcVars, txVars, sigVars, endVars>>

\* Variant of LeaveClose: leave returns its result without the close.
LeaveNoClose ==
    /\ call.step = "close"
    /\ Finish(Bool(is_subset(call.resp, Matcher)), "-")
    /\ NoReceive
    /\ UNCHANGED <<state, ackedOk>>
    /\ UNCHANGED <<pcVars, txVars, sigVars, endVars>>

\* leave: await self._pc.close(), then the result.
LeaveClose ==
    /\ call.step = "close"
    /\ PcClose
    /\ Finish(Bool(is_subset(call.resp, Matcher)), "-")
    /\ NoReceive
    /\ UNCHANGED <<state, ackedOk>>
    /\ UNCHANGED <<txVars, sigVars, endVars>>

\* configure: await self.on_receive_jsep(jsep): setRemoteDescription of the
\* answer, which the media engine accepts only with a local offer pending.
\* The media engine announces the remote track of every transceiver that had
\* none, and __on_track_created invokes the track-created callback for it.
ApplyAnswer ==
    /\ call.step = "apply"
    /\ IF pcSig = "have-local-offer"
       THEN /\ pcRemote' = TRUE
            /\ pcSig' = "stable"
            /\ trackCb' = pcTracks
            /\ call' = [call EXCEPT !.step = "setin"]
            /\ NoReturn
       ELSE /\ Finish("Exception", "Exception")
            /\ UNCHANGED <<pcRemote, pcSig, trackCb>>
    /\ NoReceive
    /\ UNCHANGED <<state, ackedOk, pcConn, pcTracks, listeners, handlers>>
    /\ UNCHANGED <<txVars, endVars, mediaCb, mediaIn, webrtcup, coalesced>>

\* configure: self.__state = STREAMING_IN_MEDIA; return True; publish_stream
\* drops the value.
SetStreamingIn ==
    /\ call.step = "setin"
    /\ state' = STREAMING_IN_MEDIA
    /\ Finish("None", "True")
    /\ NoReceive
    /\ UNCHANGED ackedOk
    /\ UNCHANGED <<pcVars, txVars, sigVars, endVars>>

\* Variant of EventClear: the event stays as it is.
EventKept(e) == e

\* self.__webrtcup_event.clear()
EventClear(e) == FALSE

\* wait_webrtcup ends: the event is cleared. sub tells whether more than one
\* webrtcup message had set the event it consumed.
WaitReturn ==
    /\ webrtcup' = EventClear(webrtcup)
    /\ coalesced' = FALSE
    /\ last' = [NoLast EXCEPT !.op = "wait_webrtcup", !.outcome = "None",
                              !.sub = IF coalesced THEN "coalesced" ELSE "single",
                              !.before = state]
    /\ call' = NoCall

\* wait_webrtcup(): with the event set, wait() returns without suspending;
\* otherwise the client task is suspended in it.
wait_webrtcup ==
    /\ call.step = "idle"
    /\ IF webrtcup
       THEN WaitReturn
       ELSE /\ call' = [NoCall EXCEPT !.op = "wait_webrtcup", !.step = "wait",
                                      !.before = state]
            /\ NoReturn
            /\ UNCHANGED <<webrtcup, coalesced>>
    /\ NoReceive
    /\ UNCHANGED <<state, ackedOk, mediaCb, mediaIn, trackCb>>
    /\ UNCHANGED <<pcVars, txVars, endVars>>

\* The event has been set while the client task was suspended in
\* wait_webrtcup: the task is resumed.
WaitWakeup ==
    /\ call.step = "wait"
    /\ webrtcup
    /\ WaitReturn
    /\ NoReceive
    /\ UNCHANGED <<state, ackedOk, mediaCb, mediaIn, trackCb>>
    /\ UNCHANGED <<pcVars, txVars, endVars>>

\* ---------------------------------------------------------- the system
\* The signaling operations of the client task.
Signaling ==
    \/ \E op \in {"exists", "join", "leave"}, room \in Rooms : Start(op, room)
    \/ LeaveClose

\* publish_stream and close_stream of the client task.
Streaming ==
    \/ \E track \in BOOLEAN : PublishStart(track)
    \/ PublishSetState
    \/ ApplyAnswer
    \/ SetStreamingIn
    \/ close_stream

\* publish_stream alone.
Publishing ==
    \/ \E track \in BOOLEAN : PublishStart(track)
    \/ PublishSetState
    \/ ApplyAnswer
    \/ SetStreamingIn

\* wait_webrtcup of the client task.
Waiting ==
    \/ wait_webrtcup
    \/ WaitWakeup

\* __send_wrapper, for whichever operation is in it.
SendWrapper ==
    \/ Send
    \/ GetTimeout
    \/ GetReturn
    \/ Done
    \/ Check

\* The media engine's connection-state notifications.
Engine ==
    \/ \E s \in {"connecting", "connected", "failed"} : OnStateChangedOther(s)
    \/ OnStateChangedClose
    \/ OnStreamEndedCallback
    \/ OnStateChangedSetIdle

\* The gateway's replies to requests.
Gateway ==
    \E tx \in TxIds, msg \in LateReplies \cup Replies("exists")
            \cup Replies("join") \cup Replies("leave") \cup Replies("publish") :
        Deliver(tx, msg)

\* The gateway's session-level events.
Signals == \E msg \in Events : Broadcast(msg)

\* The gateway's webrtcup events.
UpSignals == Broadcast(WebrtcUp)

Next ==
    \/ Signaling \/ Streaming \/ Waiting \/ SendWrapper \/ Engine
    \/ Gateway \/ Signals

Spec == Init /\ [][Next]_vars

\* The operations and the media engine, without the session-level events:
\* on_receive writes mediaCb, mediaIn and webrtcup only, which no operation
\* and no handler of the media engine reads.
NextCalls == Signaling \/ Streaming \/ SendWrapper \/ Engine \/ Gateway

SpecCalls == Init /\ [][NextCalls]_vars

\* The session-level events against a client that publishes and closes:
\* exists, join and leave up to the close write nothing on_receive reads.
NextSignals == Streaming \/ SendWrapper \/ Engine \/ Gateway \/ Signals

SpecSignals == Init /\ [][NextSignals]_vars

\* The webrtcup event against a client that signals, publishes and waits,
\* up to the moment the media engine is closed: the handlers of the media
\* engine neither read nor write the event.
NextUp ==
    \/ Signaling \/ Publishing \/ Waiting \/ SendWrapper \/ Gateway \/ UpSignals

SpecUp == Init /\ [][NextUp]_vars

\* Fairness of the event loop: the client task, resumed by the event, runs.
FairUp == SpecUp /\ WF_vars(WaitWakeup)

\* Fairness of the event loop: a handler task that is ready to run is run.
Fairness ==
    /\ WF_vars(OnStateChangedClose)
    /\ WF_vars(OnStreamEndedCallback)
    /\ WF_vars(OnStateChangedSetIdle)

FairCalls == SpecCalls /\ Fairness

\* ------------------------------------------------------------ properties
ConfigureMatcher == SuccessMatcher("publish", "-")

WrapperSteps == {"send", "await", "done", "check"}

\* C1: a send-then-await operation whose first satisfying reply is a
\* top-level error ends with RemoteError, with its transaction released by
\* then; and no step of the send wrapper writes SessionState.
C1_RemoteErrorInv ==
    (last.tx # 0 /\ is_subset(last.resp, ErrorPattern))
        => (last.outcome = "RemoteError" /\ last.tx \notin txs)

C1_RemoteError ==
    /\ [](C1_RemoteErrorInv /\ (last.outcome = "RemoteError"
                                   => is_subset(last.resp, ErrorPattern)))
    /\ [][(call.step \in WrapperSteps /\ call' # call) => state' = state]_vars

C1_Witness ==
    /\ last.outcome = "RemoteError"
    /\ last.op = "publish"
    /\ last.tx \notin txs

\* C2: when the wait times out, the caller gets TransactionTimeout and the
\* transaction of the call is no longer registered.
C2_TimeoutReleases ==
    last.outcome = "TransactionTimeout" => last.tx \notin txs

\* C3: a "media flowing" signal handled while SessionState is Idle fails
\* with InvalidStateTransition, invokes no callback and leaves the state
\* Idle.
C3_MediaWhileIdle ==
    (rx.msg = Media("true") /\ rx.before = IDLE)
        => (rx.outcome = "InvalidStateTransition" /\ rx.calls = 0
            /\ state = IDLE)

C3_Witness ==
    /\ rx.msg = Media("true")
    /\ rx.before = IDLE
    /\ rx.outcome = "InvalidStateTransition"
    /\ toIdle > 0

\* C4: in StreamingIn every "media flowing" signal is forwarded to the
\* media-received callback: as many invocations as signals, none raises,
\* and the state stays StreamingIn.
C4_MediaForwarded ==
    /\ mediaCb = mediaIn
    /\ (rx.msg = Media("true") /\ rx.before = STREAMING_IN_MEDIA)
        => (rx.outcome = "ok" /\ rx.calls = 1 /\ state = STREAMING_IN_MEDIA)

C4_Witness ==
    /\ rx.msg = Media("true")
    /\ rx.before = STREAMING_IN_MEDIA
    /\ mediaIn = 2
    /\ mediaCb = 2

\* C5: SessionState is StreamingOut only once a configure request has been
\* sent and acknowledged ok.
C5_StreamingOutAcked ==
    state = STREAMING_OUT_MEDIA => ackedOk

\* C6: SessionState becomes StreamingIn only in configure, on a success
\* reply with a valid answer, after the answer has been applied to the
\* media engine.
C6_AnswerBeforeStreamingIn ==
    /\ [](state = STREAMING_IN_MEDIA => pcRemote)
    /\ [][(state' = STREAMING_IN_MEDIA /\ state # STREAMING_IN_MEDIA)
            => /\ pcRemote
               /\ call.op = "publish"
               /\ is_subset(call.resp, ConfigureMatcher)
               /\ ValidJsep(call.resp)]_vars

C6_Witness ==
    /\ state = STREAMING_IN_MEDIA
    /\ pcRemote
    /\ last.op = "publish"
    /\ last.sub = "True"
    /\ ValidJsep(last.resp)

\* A success-shaped configure reply without a valid answer.
NoAnswerReply(resp) ==
    is_subset(resp, ConfigureMatcher) /\ ~ValidJsep(resp)

\* C7: a configure whose reply is success-shaped but carries no valid
\* answer fails with NegotiationError.
C7_NegotiationError ==
    (last.op = "publish" /\ NoAnswerReply(last.resp))
        => last.outcome = "NegotiationError"

\* C8: publish_stream started in Idle and answered by a success-shaped
\* reply without an answer leaves SessionState Idle.
C8_FailedNegotiationKeepsState ==
    (last.op = "publish" /\ last.before = IDLE /\ NoAnswerReply(last.resp))
        => state = IDLE

\* C9: the stream-ended callback is invoked exactly once per transition of
\* SessionState from a streaming state to Idle: every invocation belongs to
\* a handler run that has made, or is about to make, that transition.
C9_OneCallbackPerTransition ==
    /\ endedCb = toIdle + handlers.set
    /\ handlers.set > 0 => state # IDLE

C9_Witness ==
    /\ toIdle = 1
    /\ endedCb = 1
    /\ pcTracks = 2
    /\ state = IDLE

HandlerOrder == <<"close", "callback", "idle">>

\* C10: on connectionState closed in a streaming state the handler closes
\* the media engine, then invokes the stream-ended callback, then sets
\* SessionState to Idle, and SessionState eventually is Idle; a change to
\* any other connection state leaves SessionState alone and invokes no
\* callback.
C10_ClosedHandler ==
    /\ [](\A i \in 1..Len(hlog) : i <= 3 /\ hlog[i] = HandlerOrder[i])
    /\ (handlers.close > 0 /\ state # IDLE) ~> (state = IDLE)
    /\ [][(pcConn' # pcConn /\ pcConn' # "closed")
            => (state' = state /\ endedCb' = endedCb /\ mediaCb' = mediaCb
                /\ handlers' = handlers)]_vars

C10_Witness ==
    /\ hlog = HandlerOrder
    /\ state = IDLE
    /\ toIdle = 1

PureSignaling == {"exists", "join"}

\* C11: exists and join are pure signaling: however they end, no step of
\* theirs changes SessionState or the webrtcup event, touches the media
\* engine, or invokes the media-received, track-created or stream-ended
\* callback.
C11_PureSignalingFrame ==
    /\ [](last.op \in PureSignaling => state = last.before)
    /\ [][((call.op \in PureSignaling \/ call'.op \in PureSignaling)
             /\ call' # call)
            => /\ state' = state
               /\ webrtcup' = webrtcup
               /\ pcVars' = pcVars
               /\ mediaCb' = mediaCb
               /\ trackCb' = trackCb
               /\ endedCb' = endedCb]_vars

C11_Witness ==
    /\ last.op = "join"
    /\ last.outcome = "TransactionTimeout"
    /\ state = STREAMING_IN_MEDIA
    /\ trackCb = 1
    /\ webrtcup

\* C12: on_receive never writes SessionState: whatever the message and the
\* state, and whether it returns or raises, SessionState after it is
\* SessionState before it.
C12_OnReceiveKeepsState ==
    /\ [](rx # NoRx => state = rx.before)
    /\ [][rx' # NoRx => state' = state]_vars

C12_Witness ==
    /\ rx.msg = ConfigureOk("answer")
    /\ rx.outcome = "AttributeError"
    /\ rx.before = STREAMING_OUT_MEDIA
    /\ state = STREAMING_OUT_MEDIA

\* C20: in StreamingOut a "media flowing" signal is absorbed: no callback,
\* no exception, SessionState stays StreamingOut; and so is, in every state,
\* a media signal with receiving = false.
C20_MediaAbsorbed ==
    /\ (rx.msg = Media("true") /\ rx.before = STREAMING_OUT_MEDIA)
        => (rx.outcome = "ok" /\ rx.calls = 0
            /\ state = STREAMING_OUT_MEDIA)
    /\ rx.msg = Media("false")
        => (rx.outcome = "ok" /\ rx.calls = 0 /\ state = rx.before)

C20_Witness ==
    /\ rx.msg = Media("true")
    /\ rx.before = STREAMING_OUT_MEDIA
    /\ rx.outcome = "ok"
    /\ mediaCb = 0
    /\ pcConn = "connecting"

\* C13: the webrtcup event is a single-slot flag: a webrtcup message sets it;
\* wait_webrtcup returns only with the event set and leaves it cleared,
\* however many messages had set it; a wait started with the event cleared
\* stays suspended until a message sets it; and a suspended wait whose event
\* is set eventually returns.
C13_SingleSlotFlag ==
    /\ [](rx.msg = WebrtcUp => webrtcup)
    /\ [](last.op = "wait_webrtcup" => ~webrtcup)
    /\ [][last'.op = "wait_webrtcup" => webrtcup]_vars
    /\ [][(call.step = "wait" /\ ~webrtcup) => call' = call]_vars
    /\ (call.step = "wait" /\ webrtcup) ~> (last.op = "wait_webrtcup")

C13_Witness ==
    /\ last.op = "wait_webrtcup"
    /\ last.sub = "coalesced"
    /\ ~webrtcup
    /\ state = STREAMING_IN_MEDIA

\* C14: exists(r) returns the value of the exists field of the reply that
\* completed it, which satisfies the success pattern for room r: true for
\* true, false for false; a success reply for another room never completes
\* the call.
C14_ExistsReturnsField ==
    /\ (last.op = "exists" /\ last.outcome \in {"True", "False"})
        => /\ is_subset(last.resp, SuccessMatcher("exists", last.room))
           /\ last.outcome = Bool(last.resp.exists = "true")
    /\ (call.op = "exists" /\ call.step \in {"done", "check"})
        => call.resp.room \in {Absent, call.room}

C14_Witness ==
    /\ last.op = "exists"
    /\ last.room = "1234"
    /\ last.resp = ExistsReply("1234", "false")
    /\ last.outcome = "False"

\* C15: an operation that obtains a satisfying reply sends, awaits, then
\* releases: its transaction stays registered until the reply is obtained,
\* is released once, by the operation that created it, before the operation
\* returns or raises RemoteError; and no release removes another
\* transaction.
C15_SendAwaitRelease ==
    /\ [](call.step \in {"await", "done"} => call.tx \in txs)
    /\ [](call.step \in {"done", "check"}
            => function_matcher(call.resp, Matcher))
    /\ [](call.step = "check" => call.tx \notin txs)
    /\ []((last.tx # 0 /\ last.outcome # "TransactionTimeout")
            => last.tx \notin txs)
    /\ [][txs' # txs
            => \/ call.step = "send" /\ txs' = txs \cup {call'.tx}
                  /\ call'.tx \notin txs
               \/ call.step = "done" /\ txs' = txs \ {call.tx}]_vars

C15_Witness ==
    /\ last.op = "join"
    /\ last.outcome = "True"
    /\ last.tx = 2
    /\ txs = {1}

\* C16: the reply handed to a send-then-await operation is the first message
\* of its mailbox, in delivery order, that satisfies the success pattern or
\* a generic error pattern; messages satisfying neither are passed over; and
\* that reply decides the outcome: RemoteError for a top-level error, a
\* result for a success reply.
C16_FirstMatchDecides ==
    /\ [][(call.step = "await" /\ call'.step = "done")
            => LET box == mailbox[call.tx] IN
                \E i \in 1..Len(box) :
                    /\ box[i] = call'.resp
                    /\ function_matcher(box[i], Matcher)
                    /\ \A j \in 1..(i - 1) :
                          ~function_matcher(box[j], Matcher)]_vars
    /\ []((last.tx # 0 /\ is_subset(last.resp, ErrorPattern))
            => last.outcome = "RemoteError")
    /\ []((last.tx # 0
             /\ is_subset(last.resp, SuccessMatcher(last.op, last.room)))
            => last.outcome \in {"True", "False", "None"})

C16_Witness ==
    /\ call.op = "join"
    /\ call.step = "done"
    /\ call.resp = JanusError
    /\ mailbox[call.tx] = <<Joined(call.room)>>

\* C17: a leave that returns a result has closed the media engine by then;
\* and a leave that returns true in a streaming state is eventually followed
\* by SessionState Idle with the stream-ended callback invoked.
C17_LeaveClosesEngine ==
    /\ []((last.op = "leave" /\ last.outcome \in {"True", "False"})
            => (pcSig = "closed" /\ pcConn = "closed"))
    /\ (last.op = "leave" /\ last.outcome = "True" /\ state # IDLE)
        ~> (state = IDLE /\ endedCb > 0)

C17_Witness ==
    /\ last.op = "leave"
    /\ last.outcome = "True"
    /\ state = STREAMING_IN_MEDIA
    /\ pcSig = "closed"
    /\ handlers.close = 1

\* C18: the plugin's own error event, delivered as the answer to a request,
\* satisfies the matcher of the send wrapper, so the waiting call can end on
\* it; and no call times out with that event in its mailbox.
C18_PluginErrorEndsCall ==
    (call.step = "await"
        /\ \E i \in 1..Len(mailbox[call.tx]) : mailbox[call.tx][i] = PluginError)
    => Matching(mailbox[call.tx], Matcher) # {}

\* C19: teardown is idempotent: close_stream, however often and before or
\* after leave, raises nothing and leaves SessionState alone; a teardown of a
\* closed media engine starts no handler; and over all teardowns the
\* stream-ended callback is invoked at most once, for the one stream.
C19_TeardownIdempotent ==
    /\ [](last.op = "close_stream"
            => (last.outcome = "None" /\ state = last.before))
    /\ [](endedCb + handlers.close + handlers.callback <= 1)
    /\ [][(last'.op = "close_stream" \/ (call.step = "close" /\ call' # call))
            => /\ state' = state
               /\ endedCb' = endedCb
               /\ pcSig' = "closed"
               /\ pcSig = "closed" => pcVars' = pcVars]_vars

C19_Witness ==
    /\ last.op = "close_stream"
    /\ last.sub = "closed"
    /\ state = IDLE
    /\ toIdle = 1
    /\ endedCb = 1
    /\ nextTx = 3

\* C21: once the media engine has reported connectionState closed, a "media
\* flowing" signal is not forwarded to the media-received callback, wherever
\* the closed handler stands (not yet run, in the close, in the stream-ended
\* callback, before the write of Idle).
C21_NoMediaAfterClosed ==
    (rx.msg = Media("true") /\ pcConn = "closed") => rx.calls = 0

====
